---- MODULE Spec2Model ----
(***************************************************************************)
(* A model of three backends of the bluest BLE client library:             *)
(*                                                                         *)
(*   - the Windows GATT characteristic (src/windows/characteristic.rs):    *)
(*     Characteristic::notify and the stream it returns;                   *)
(*   - the BlueZ adapter (src/bluer/adapter.rs): wait_available,           *)
(*     connected_devices_with_services and discover_devices;               *)
(*   - the Core Bluetooth descriptor (src/corebluetooth/descriptor.rs):    *)
(*     value, read and write.                                              *)
(*                                                                         *)
(* The three backends never run in one process, so each has its own        *)
(* specification (SpecCharacteristic, SpecAdapter, SpecDescriptor) over    *)
(* its own variables; the other backends' variables stay as initialised.   *)
(***************************************************************************)
EXTENDS Integers, Sequences, FiniteSets, TLC

(***************************************************************************)
(* Bounds of the model.                                                    *)
(***************************************************************************)
\* notify() calls made on the one characteristic
MaxSubscribers == 2
\* value-changed events the platform raises
MaxEvents == 1
\* raw events the BlueZ adapter emits (power changes and others)
MaxAdapterEvents == 3
\* remote devices BlueZ can know of
MaxDevices == 2
\* connects and disconnects of remote devices while the client runs
MaxConnChanges == 1

\* descriptor read()/write() calls
MaxOps == 2
\* peripheral events that answer no request of the descriptor
MaxPeriphEvents == 2
\* tasks that call session() concurrently
MaxCallers == 3
\* value-changed events raised while one stream is followed: more than the
\* channel holds
MaxBurst == 17

\* tokio::sync::mpsc::channel(16)
ChannelCapacity == 16

VARIABLES
    \* ---- Windows characteristic ----
    props,       \* CharacteristicProperties of the GattCharacteristic
    pc,          \* per notify() call: where the call / its stream stands
    result,      \* per notify() call: what the call returned
    handlers,    \* calls whose ValueChanged handler is registered
    removed,     \* per call: RemoveValueChanged invocations
    rxOpen,      \* per call: the mpsc receiver exists and is not dropped
    chan,        \* per call: items in the mpsc channel
    received,    \* per call: items the consumer has taken from the stream
    inFlight,    \* CCCD writes started and not yet answered by the peer
    cccdWrites,  \* every invocation of the CCCD write API, in order
    writeDone,   \* per call: completion of its enable write, or "none"
    peerCccd,    \* the peer's CCCD value
    raised,      \* value-changed events raised so far
    logged,      \* warn! lines written
    regAt,       \* per registered handler: events raised before it was registered
    \* ---- BlueZ adapter: power and the adapter event stream ----
    powered,       \* the adapter's Powered property
    evCount,       \* raw adapter events emitted so far
    evSubs,        \* subscriptions made with inner.events()
    evPolled,      \* the event stream has been polled
    evQueue,       \* raw events queued on the subscription
    evClosed,      \* the event stream has terminated
    waPc,          \* wait_available(): where the call stands
    waPoweredSeen, \* wait_available(): what is_powered() returned
    waResult,      \* wait_available(): what the call returned
    waConsumed,    \* wait_available(): items skip_while/next were given
    \* ---- BlueZ adapter: remote devices ----
    devKnown,      \* per device: BlueZ has an object for it
    devConnected,  \* per device: its Connected property
    devUuids,      \* per device: its service UUIDs
    connChanges,   \* connects/disconnects so far
    \* ---- connected_devices_with_services ----
    cdPc, cdServices, cdPending, cdFound, cdRes, cdResult,
    cdQueries,     \* D-Bus queries made by the call
    \* ---- discover_devices ----
    ddPc, ddServices,
    discQueue,     \* events queued on the BlueZ discovery stream
    ddEmitted,     \* devices BlueZ has announced on the stream
    ddYielded,     \* items the consumer has been given: Ok(device) or Err
    scanStarts,    \* discovery sessions started
    scanStops,     \* discovery sessions stopped
    \* ---- session() ----
    SESSION,       \* the static OnceCell: NoSession or the stored session
    sPc,           \* per caller: where its session()/default() call stands
    sNew,          \* per caller: the session its Session::new() made
    sRes,          \* per caller: "none", "Ok" or "Err" returned by session()
    sRet,          \* per caller: the session an Ok return refers to
    sDropped,      \* sessions made and discarded
    sAdapter,      \* per caller: what default() returned
    \* ---- scan ----
    scPc, scServices,
    scQueue,       \* events queued on the BlueZ discovery stream of scan()
    scEmitted,     \* devices BlueZ has announced on that stream
    scYielded,     \* the AdvertisingDevice items the consumer has been given
    scPolled,      \* the returned stream has been polled
    scStarts,      \* discovery sessions started by scan()
    scStops,       \* discovery sessions stopped
    \* ---- Core Bluetooth descriptor ----
    periphConnected, \* peripheral.state() == CONNECTED
    descValue,     \* CBDescriptor.value: <<>> (nil) or <<object>>
    opPc,          \* the read()/write() call: idle, waiting or done
    opKind,        \* "read" or "write"
    opResult,      \* what the call returned
    opCount,       \* read()/write() calls made so far
    rxQueue,       \* events queued on the call's broadcast receiver
    requests,      \* requests the peripheral has not answered yet
    ioCount,       \* read/write requests sent to the peripheral
    periphEvents,  \* unsolicited peripheral events so far
    valueRes,      \* what the last value() call returned
    svcAlive,      \* characteristic().service() is Some: the CBService exists
    svcInvalid,    \* a service change has invalidated the owning service
    opStale,       \* the service was already invalidated when the call began
    opSeen         \* events the call's loop has taken from its receiver

charVars == <<props, pc, result, handlers, removed, rxOpen, chan, received,
              inFlight, cccdWrites, writeDone, peerCccd, raised, logged,
              regAt>>

waVars == <<powered, evCount, evSubs, evPolled, evQueue, evClosed, waPc,
            waPoweredSeen, waResult, waConsumed>>

devVars == <<devKnown, devConnected, devUuids, connChanges>>

cdVars == <<cdPc, cdServices, cdPending, cdFound, cdRes, cdResult, cdQueries>>

ddVars == <<ddPc, ddServices, discQueue, ddEmitted, ddYielded, scanStarts,
            scanStops>>

sessVars == <<SESSION, sPc, sNew, sRes, sRet, sDropped, sAdapter>>

scVars == <<scPc, scServices, scQueue, scEmitted, scYielded, scPolled,
            scStarts, scStops>>

adapterVars == <<waVars, devVars, cdVars, ddVars, sessVars, scVars>>

descVars == <<periphConnected, descValue, opPc, opKind, opResult, opCount,
              rxQueue, requests, ioCount, periphEvents, valueRes, svcAlive,
              svcInvalid, opStale, opSeen>>

vars == <<charVars, adapterVars, descVars>>

Calls == 1..MaxSubscribers

PropSets == {{"Read"}, {"Read", "Write"}, {"Notify"}, {"Indicate"},
             {"Read", "Notify", "Indicate"}}

\* faulty variant: the final else branch (NotSupported) is missing
CccdValueFor_NoCheck(p) ==
    IF "Indicate" \in p /\ "Notify" \notin p THEN "Indicate" ELSE "Notify"

\* notify(): the CCCD value chosen from the properties, or none
CccdValueFor(p) ==
    IF "Notify" \in p THEN "Notify"
    ELSE IF "Indicate" \in p THEN "Indicate"
    ELSE "Unsupported"

\* a characteristic as Characteristic::new leaves it, its properties in P
CharStart(P) ==
    /\ props \in P
    /\ pc = [c \in Calls |-> "idle"]
    /\ result = [c \in Calls |-> "none"]
    /\ handlers = {}
    /\ removed = [c \in Calls |-> 0]
    /\ rxOpen = [c \in Calls |-> FALSE]
    /\ chan = [c \in Calls |-> <<>>]
    /\ received = [c \in Calls |-> <<>>]
    /\ inFlight = <<>>
    /\ cccdWrites = <<>>
    /\ writeDone = [c \in Calls |-> "none"]
    /\ peerCccd = "None"
    /\ raised = 0
    /\ logged = 0
    /\ regAt = [c \in Calls |-> 0]

CharInit == CharStart(PropSets)

\* the characteristic when another backend is the one running
CharQuiet == CharStart({{"Read"}})

(***************************************************************************)
(* Windows: Characteristic::notify                                         *)
(***************************************************************************)

\* the characteristic's operations touch no other backend's state
CharFrame == UNCHANGED <<adapterVars, descVars>>

\* a notify() call returns Err: the call is over and nothing is returned
Fail(c, err) ==
    /\ pc' = [pc EXCEPT ![c] = "failed"]
    /\ result' = [result EXCEPT ![c] = err]

\* the first scopeguard: RemoveValueChanged(token)
RemoveHandler(c) ==
    /\ handlers' = handlers \ {c}
    /\ removed' = [removed EXCEPT ![c] = @ + 1]
    /\ regAt' = [regAt EXCEPT ![c] = 0]

\* one invocation of WriteClientCharacteristicConfigurationDescriptor-
\* WithResultAsync(v) by call c; started: the call returned an operation
IssueWrite(c, v, started) ==
    /\ cccdWrites' = Append(cccdWrites, [value |-> v, call |-> c, started |-> started])
    /\ inFlight' = IF started THEN Append(inFlight, [value |-> v, call |-> c])
                   ELSE inFlight

\* notify() up to its first await: the property check, the channel, the
\* ValueChanged registration, the first guard and the start of the enable
\* write
NotifyCall(c) ==
    /\ CharFrame
    /\ pc[c] = "idle"
    /\ LET value == CccdValueFor(props) IN
       IF value = "Unsupported"
       THEN /\ Fail(c, "NotSupported")
            /\ UNCHANGED <<handlers, removed, rxOpen, cccdWrites, inFlight,
                             regAt>>
       ELSE \E registered \in BOOLEAN, started \in BOOLEAN :
            IF ~registered
            THEN \* ValueChanged(..)? failed: sender and receiver are dropped
                 /\ Fail(c, "Other")
                 /\ UNCHANGED <<handlers, removed, rxOpen, cccdWrites, inFlight,
                             regAt>>
            ELSE IF ~started
            THEN \* the write could not be started: the guard removes the handler
                 /\ Fail(c, "Other")
                 /\ IssueWrite(c, value, FALSE)
                 /\ removed' = [removed EXCEPT ![c] = @ + 1]
                 /\ UNCHANGED <<handlers, rxOpen, regAt>>
            ELSE /\ pc' = [pc EXCEPT ![c] = "enabling"]
                 /\ regAt' = [regAt EXCEPT ![c] = raised]
                 /\ handlers' = handlers \cup {c}
                 /\ rxOpen' = [rxOpen EXCEPT ![c] = TRUE]
                 /\ IssueWrite(c, value, TRUE)
                 /\ UNCHANGED <<result, removed>>
    /\ UNCHANGED <<props, chan, received, writeDone, peerCccd, raised, logged>>

WriteStatuses == {"Success", "Unreachable", "Error"}

\* the peer answers the oldest CCCD write in flight. An enable write's
\* completion is handed to the awaiting notify(); a disable write's is
\* awaited by the spawned task, which logs a failure.
PeerWrite ==
    /\ CharFrame
    /\ inFlight # <<>>
    /\ LET w == Head(inFlight) IN
       \E st \in WriteStatuses :
          /\ inFlight' = Tail(inFlight)
          /\ peerCccd' = IF st = "Success" THEN w.value ELSE peerCccd
          /\ IF w.value = "None"
             THEN /\ logged' = IF st = "Success" THEN logged ELSE logged + 1
                  /\ UNCHANGED writeDone
             ELSE /\ writeDone' = [writeDone EXCEPT ![w.call] = st]
                  /\ UNCHANGED logged
    /\ UNCHANGED <<props, pc, result, handlers, removed, rxOpen, chan, received,
                   cccdWrites, raised, regAt>>

\* faulty variant: the write's status is not checked
NotifyResume_NoStatusCheck(c) ==
    /\ CharFrame
    /\ pc[c] = "enabling"
    /\ writeDone[c] # "none"
    /\ pc' = [pc EXCEPT ![c] = "live"]
    /\ result' = [result EXCEPT ![c] = "Ok"]
    /\ UNCHANGED <<handlers, removed, rxOpen, chan, regAt>>
    /\ UNCHANGED <<props, received, inFlight, cccdWrites, writeDone, peerCccd,
                   raised, logged>>

\* faulty variant: the second guard is armed before the status check, so a
\* failed enable write is followed by a disable write
NotifyResume_GuardEarly(c) ==
    /\ CharFrame
    /\ pc[c] = "enabling"
    /\ writeDone[c] # "none"
    /\ IF writeDone[c] = "Success"
       THEN /\ pc' = [pc EXCEPT ![c] = "live"]
            /\ result' = [result EXCEPT ![c] = "Ok"]
            /\ UNCHANGED <<handlers, removed, rxOpen, chan, regAt, inFlight,
                           cccdWrites, logged>>
       ELSE /\ Fail(c, "Other")
            /\ RemoveHandler(c)
            /\ rxOpen' = [rxOpen EXCEPT ![c] = FALSE]
            /\ chan' = [chan EXCEPT ![c] = <<>>]
            /\ IssueWrite(c, "None", TRUE)
            /\ UNCHANGED logged
    /\ UNCHANGED <<props, received, writeDone, peerCccd, raised>>

\* notify() after the enable write's await: .await?, the status check,
\* the second guard and the returned stream
NotifyResume(c) ==
    /\ CharFrame
    /\ pc[c] = "enabling"
    /\ writeDone[c] # "none"
    /\ IF writeDone[c] = "Success"
       THEN /\ pc' = [pc EXCEPT ![c] = "live"]
            /\ result' = [result EXCEPT ![c] = "Ok"]
            /\ UNCHANGED <<handlers, removed, rxOpen, chan, regAt>>
       ELSE /\ Fail(c, "Other")
            /\ RemoveHandler(c)
            /\ rxOpen' = [rxOpen EXCEPT ![c] = FALSE]
            /\ chan' = [chan EXCEPT ![c] = <<>>]
    /\ UNCHANGED <<props, received, inFlight, cccdWrites, writeDone, peerCccd,
                   raised, logged>>

\* faulty variant: the handler uses try_send, which gives up on a full channel
ValueChangedUpTo_TrySend(n) ==
    /\ CharFrame
    /\ peerCccd # "None"
    /\ raised < n
    /\ raised' = raised + 1
    /\ chan' = [c \in Calls |->
                  IF c \in handlers /\ rxOpen[c] /\ Len(chan[c]) < ChannelCapacity
                  THEN Append(chan[c], raised + 1) ELSE chan[c]]
    /\ UNCHANGED <<props, pc, result, handlers, removed, rxOpen, received,
                   inFlight, cccdWrites, writeDone, peerCccd, logged, regAt>>

\* the platform raises ValueChanged, at most n times in all: every
\* registered handler runs sender.blocking_send(value), which waits for a
\* free slot and whose error (receiver dropped) is ignored
ValueChangedUpTo(n) ==
    /\ CharFrame
    /\ peerCccd # "None"
    /\ raised < n
    /\ \A c \in handlers : rxOpen[c] => Len(chan[c]) < ChannelCapacity
    /\ raised' = raised + 1
    /\ chan' = [c \in Calls |->
                  IF c \in handlers /\ rxOpen[c]
                  THEN Append(chan[c], raised + 1) ELSE chan[c]]
    /\ UNCHANGED <<props, pc, result, handlers, removed, rxOpen, received,
                   inFlight, cccdWrites, writeDone, peerCccd, logged, regAt>>

ValueChanged == ValueChangedUpTo(MaxEvents)

\* the consumer polls the stream and takes the next item
StreamNext(c) ==
    /\ CharFrame
    /\ pc[c] = "live"
    /\ chan[c] # <<>>
    /\ received' = [received EXCEPT ![c] = Append(@, Head(chan[c]))]
    /\ chan' = [chan EXCEPT ![c] = Tail(@)]
    /\ UNCHANGED <<props, pc, result, handlers, removed, rxOpen, inFlight,
                   cccdWrites, writeDone, peerCccd, raised, logged, regAt>>

\* faulty variant: the stream's guard only removes the handler, no disable write
DropStream_NoDisable(c) ==
    /\ CharFrame
    /\ pc[c] = "live"
    /\ pc' = [pc EXCEPT ![c] = "disposed"]
    /\ rxOpen' = [rxOpen EXCEPT ![c] = FALSE]
    /\ chan' = [chan EXCEPT ![c] = <<>>]
    /\ RemoveHandler(c)
    /\ UNCHANGED <<props, result, received, writeDone, peerCccd, raised,
                   cccdWrites, inFlight, logged>>

\* faulty variant: a disable write that cannot be started leaves the handler
DropStream_KeepHandlerOnError(c) ==
    /\ CharFrame
    /\ pc[c] = "live"
    /\ pc' = [pc EXCEPT ![c] = "disposed"]
    /\ rxOpen' = [rxOpen EXCEPT ![c] = FALSE]
    /\ chan' = [chan EXCEPT ![c] = <<>>]
    /\ \E started \in BOOLEAN :
          /\ IssueWrite(c, "None", started)
          /\ logged' = IF started THEN logged ELSE logged + 1
          /\ IF started THEN RemoveHandler(c)
             ELSE UNCHANGED <<handlers, removed, regAt>>
    /\ UNCHANGED <<props, result, received, writeDone, peerCccd, raised>>

\* the consumer drops the stream: the receiver goes, the second guard
\* starts the disable write (a failure to start is logged) and then the
\* first guard removes the handler
DropStream(c) ==
    /\ CharFrame
    /\ pc[c] = "live"
    /\ pc' = [pc EXCEPT ![c] = "disposed"]
    /\ rxOpen' = [rxOpen EXCEPT ![c] = FALSE]
    /\ chan' = [chan EXCEPT ![c] = <<>>]
    /\ \E started \in BOOLEAN :
          /\ IssueWrite(c, "None", started)
          /\ logged' = IF started THEN logged ELSE logged + 1
    /\ RemoveHandler(c)
    /\ UNCHANGED <<props, result, received, writeDone, peerCccd, raised>>

CharNext ==
    \/ \E c \in Calls : NotifyCall(c)
    \/ PeerWrite
    \/ \E c \in Calls : NotifyResume(c)
    \/ ValueChanged
    \/ \E c \in Calls : StreamNext(c)
    \/ \E c \in Calls : DropStream(c)

(***************************************************************************)
(* Claims about Characteristic::notify                                     *)
(***************************************************************************)

\* indices of the invocations of the CCCD write API with a value in vs
WritesOf(vs) == {i \in 1..Len(cccdWrites) : cccdWrites[i].value \in vs}

EnableWrites == WritesOf({"Notify", "Indicate"})

DisableWrites == WritesOf({"None"})

\* a and b are the only calls made, both returned a stream, and each
\* called notify() before the other's stream was dropped
Overlapping(a, b) ==
    /\ a # b
    /\ \A o \in Calls \ {a, b} : pc[o] = "idle"
    /\ result[a] = "Ok" /\ result[b] = "Ok"
    /\ \A i \in EnableWrites, j \in DisableWrites :
          cccdWrites[i].call \in {a, b} /\ cccdWrites[j].call \in {a, b} => i < j

\* C1: two subscribers whose streams overlap cause exactly one CCCD-enable
\* write in total; dropping one stream while the other is live causes no
\* CCCD-disable write; dropping both causes exactly one.
C1_OneToggleForTwoSubscribers ==
    \A a, b \in Calls :
       Overlapping(a, b) =>
          /\ Cardinality(EnableWrites) = 1
          /\ (pc[a] = "disposed" /\ pc[b] = "live") => DisableWrites = {}
          /\ (pc[a] = "disposed" /\ pc[b] = "disposed") =>
                Cardinality(DisableWrites) = 1

\* c is the only call that has been made
OnlyCall(c) == \A o \in Calls \ {c} : pc[o] = "idle"

\* C2: for a single subscriber, a successful notify() is exactly one
\* CCCD-enable write, and dropping its stream adds exactly one CCCD-disable
\* write after it, whether or not anything was delivered or polled.
C2_EnableThenDisable ==
    \A c \in Calls :
       OnlyCall(c) =>
          /\ pc[c] = "live" =>
                cccdWrites = <<[value |-> CccdValueFor(props), call |-> c,
                                started |-> TRUE]>>
          /\ pc[c] = "disposed" =>
                /\ Len(cccdWrites) = 2
                /\ cccdWrites[1] = [value |-> CccdValueFor(props), call |-> c,
                                    started |-> TRUE]
                /\ cccdWrites[2].value = "None"
                /\ cccdWrites[2].call = c

\* C2 witness: the only subscriber dropped its stream at once: nothing was
\* raised, delivered or polled.
C2_Witness ==
    \E c \in Calls :
       /\ OnlyCall(c)
       /\ pc[c] = "disposed"
       /\ raised = 0
       /\ received[c] = <<>>
       /\ Len(cccdWrites) = 2

\* C3: whenever a stream returned by notify() is live, the peer's CCCD is
\* enabled (no disable write takes effect after a later enable write).
C3_LiveImpliesPeerEnabled ==
    \A c \in Calls : pc[c] = "live" => peerCccd # "None"

\* C4: on a characteristic with neither Notify nor Indicate every notify()
\* fails with NotSupported and leaves nothing behind: no handler, no CCCD
\* write, no channel.
C4_NotSupportedNoSideEffect ==
    (props \cap {"Notify", "Indicate"} = {}) =>
       /\ \A c \in Calls :
             /\ pc[c] \in {"idle", "failed"}
             /\ pc[c] = "failed" => result[c] = "NotSupported"
             /\ removed[c] = 0
             /\ ~rxOpen[c]
             /\ chan[c] = <<>>
       /\ handlers = {}
       /\ cccdWrites = <<>>
       /\ inFlight = <<>>
       /\ peerCccd = "None"

\* C4 witness: a notify() call has failed with NotSupported.
C4_Witness ==
    /\ props \cap {"Notify", "Indicate"} = {}
    /\ \E c \in Calls : result[c] = "NotSupported"

(***************************************************************************)
(* BlueZ: AdapterImpl                                                      *)
(***************************************************************************)

Addrs == 1..MaxDevices

Uuids == {"u1", "u2"}

\* the `services` arguments tried
ServiceArgs == {{}, {"u1"}, {"u2"}}

\* the elements of a set of addresses as a sequence, in ascending order
RECURSIVE SeqOf(_)
SeqOf(S) ==
    IF S = {} THEN <<>>
    ELSE LET m == CHOOSE x \in S : \A y \in S : x <= y
         IN <<m>> \o SeqOf(S \ {m})

\* the adapter's power and event stream before any call, Powered in B
WaStart(B) ==
    /\ powered \in B
    /\ evCount = 0
    /\ evSubs = 0
    /\ evPolled = FALSE
    /\ evQueue = <<>>
    /\ evClosed = FALSE
    /\ waPc = "idle"
    /\ waPoweredSeen = "none"
    /\ waResult = "none"
    /\ waConsumed = <<>>

WaInit == WaStart(BOOLEAN)

WaQuiet == WaStart({FALSE})

\* the remote devices: known and connected flags in F, UUID sets in U
DevStart(F, U) ==
    /\ devKnown \in [Addrs -> F]
    /\ devConnected \in [Addrs -> F]
    /\ \A a \in Addrs : devConnected[a] => devKnown[a]
    /\ devUuids \in [Addrs -> U]
    /\ connChanges = 0

DevInit == DevStart(BOOLEAN, {{}, {"u1"}})

DevQuiet == DevStart({FALSE}, {{}})

\* no connected_devices_with_services call has been made
CdInit ==
    /\ cdPc = "idle"
    /\ cdServices = {}
    /\ cdPending = <<>>
    /\ cdFound = <<>>
    /\ cdRes = <<>>
    /\ cdResult = "none"
    /\ cdQueries = 0

\* no discover_devices call has been made
DdInit ==
    /\ ddPc = "idle"
    /\ ddServices = {}
    /\ discQueue = <<>>
    /\ ddEmitted = {}
    /\ ddYielded = <<>>
    /\ scanStarts = 0
    /\ scanStops = 0

\* callers of session() and the value of an empty OnceCell
Callers == 1..MaxCallers

NoSession == 0

\* no session() call has been made: the OnceCell is empty
SessInit ==
    /\ SESSION = NoSession
    /\ sPc = [c \in Callers |-> "idle"]
    /\ sNew = [c \in Callers |-> NoSession]
    /\ sRes = [c \in Callers |-> "none"]
    /\ sRet = [c \in Callers |-> NoSession]
    /\ sDropped = {}
    /\ sAdapter = [c \in Callers |-> "none"]

\* no scan call has been made
ScInit ==
    /\ scPc = "idle"
    /\ scServices = {}
    /\ scQueue = <<>>
    /\ scEmitted = {}
    /\ scYielded = <<>>
    /\ scPolled = FALSE
    /\ scStarts = 0
    /\ scStops = 0

\* an operation of the adapter's power/event part changes nothing else
WaFrame == UNCHANGED <<descVars, charVars, devVars, cdVars, ddVars, sessVars, scVars>>

\* BlueZ: the adapter is switched on or off; a subscribed event stream is
\* sent PropertyChanged(Powered(b))
PowerChange ==
    /\ evCount < MaxAdapterEvents
    /\ powered' = ~powered
    /\ evCount' = evCount + 1
    /\ evQueue' = IF evSubs > 0 /\ ~evClosed
                  THEN Append(evQueue, IF powered THEN "PoweredOff" ELSE "PoweredOn")
                  ELSE evQueue
    /\ UNCHANGED <<evSubs, evPolled, evClosed, waPc, waPoweredSeen, waResult,
                   waConsumed>>
    /\ WaFrame

\* BlueZ: any other adapter event (another property, a device added)
OtherAdapterEvent ==
    /\ evCount < MaxAdapterEvents
    /\ evSubs > 0 /\ ~evClosed
    /\ evCount' = evCount + 1
    /\ evQueue' = Append(evQueue, "Other")
    /\ UNCHANGED <<powered, evSubs, evPolled, evClosed, waPc, waPoweredSeen,
                   waResult, waConsumed>>
    /\ WaFrame

\* BlueZ: the event stream terminates (the adapter is removed)
EventsClosed ==
    /\ evSubs > 0 /\ ~evClosed
    /\ evClosed' = TRUE
    /\ UNCHANGED <<powered, evCount, evSubs, evPolled, evQueue, waPc,
                   waPoweredSeen, waResult, waConsumed>>
    /\ WaFrame

\* events(): what the filter_map makes of a raw adapter event
AdapterEventOf(raw) ==
    CASE raw = "PoweredOn" -> "Available"
      [] raw = "PoweredOff" -> "Unavailable"
      [] OTHER -> "Filtered"

\* faulty variant: the event stream is subscribed to before the power state is read
WaitAvailableCall_EagerSubscribe ==
    /\ waPc = "idle"
    /\ evSubs' = evSubs + 1
    /\ IF powered
       THEN /\ waPoweredSeen' = "true"
            /\ waPc' = "done"
            /\ waResult' = "Ok"
       ELSE /\ waPoweredSeen' = "false"
            /\ waPc' = "waiting"
            /\ UNCHANGED waResult
    /\ UNCHANGED <<powered, evCount, evPolled, evQueue, evClosed, waConsumed>>
    /\ WaFrame

\* wait_available() up to the power check: `events` is a future that has
\* not been polled; is_powered().await? decides
WaitAvailableCall ==
    /\ waPc = "idle"
    /\ \E ok \in BOOLEAN :
          IF ~ok
          THEN /\ waPoweredSeen' = "Err"
               /\ waPc' = "done"
               /\ waResult' = "Other"
          ELSE IF powered
          THEN /\ waPoweredSeen' = "true"
               /\ waPc' = "done"
               /\ waResult' = "Ok"
          ELSE /\ waPoweredSeen' = "false"
               /\ waPc' = "subscribe"
               /\ UNCHANGED waResult
    /\ UNCHANGED <<powered, evCount, evSubs, evPolled, evQueue, evClosed,
                   waConsumed>>
    /\ WaFrame

\* wait_available(): events.await? runs events(), which subscribes with
\* self.inner.events().await?
WaitSubscribe ==
    /\ waPc = "subscribe"
    /\ \E ok \in BOOLEAN :
          IF ok
          THEN /\ evSubs' = evSubs + 1
               /\ waPc' = "waiting"
               /\ UNCHANGED waResult
          ELSE /\ waPc' = "done"
               /\ waResult' = "Other"
               /\ UNCHANGED evSubs
    /\ UNCHANGED <<powered, evCount, evPolled, evQueue, evClosed,
                   waPoweredSeen, waConsumed>>
    /\ WaFrame

\* faulty variant: no skip_while: the first item of the stream completes the call
WaitNext_NoSkip ==
    /\ waPc = "waiting"
    /\ evPolled' = TRUE
    /\ IF evQueue # <<>>
       THEN LET ev == AdapterEventOf(Head(evQueue)) IN
            /\ evQueue' = Tail(evQueue)
            /\ IF ev = "Filtered"
               THEN UNCHANGED <<waPc, waResult, waConsumed>>
               ELSE /\ waConsumed' = Append(waConsumed, ev)
                    /\ waPc' = "done"
                    /\ waResult' = "Ok"
       ELSE /\ evClosed
            /\ waConsumed' = Append(waConsumed, "End")
            /\ waPc' = "done"
            /\ waResult' = "Internal"
            /\ UNCHANGED evQueue
    /\ UNCHANGED <<powered, evCount, evSubs, evClosed, waPoweredSeen>>
    /\ WaFrame

\* wait_available(): skip_while(..).next().await is given the stream's next
\* item, or its end
WaitNext ==
    /\ waPc = "waiting"
    /\ evPolled' = TRUE
    /\ IF evQueue # <<>>
       THEN LET ev == AdapterEventOf(Head(evQueue)) IN
            /\ evQueue' = Tail(evQueue)
            /\ IF ev = "Filtered"
               THEN UNCHANGED <<waPc, waResult, waConsumed>>
               ELSE /\ waConsumed' = Append(waConsumed, ev)
                    /\ IF ev = "Available"
                       THEN /\ waPc' = "done"
                            /\ waResult' = "Ok"
                       ELSE UNCHANGED <<waPc, waResult>>
       ELSE /\ evClosed
            /\ waConsumed' = Append(waConsumed, "End")
            /\ waPc' = "done"
            /\ waResult' = "Internal"
            /\ UNCHANGED evQueue
    /\ UNCHANGED <<powered, evCount, evSubs, evClosed, waPoweredSeen>>
    /\ WaFrame

\* BlueZ: a remote device connects or disconnects; a device that connects
\* is known from then on
ConnectionChange(a) ==
    /\ connChanges < MaxConnChanges
    /\ connChanges' = connChanges + 1
    /\ devConnected' = [devConnected EXCEPT ![a] = ~@]
    /\ devKnown' = [devKnown EXCEPT ![a] = TRUE]
    /\ UNCHANGED <<devUuids, descVars, charVars, waVars, cdVars, ddVars,
                   sessVars, scVars>>

\* faulty variant: the assert on `services` is missing
CdwsCall_NoAssert(services) ==
    /\ cdPc = "idle"
    /\ cdServices' = services
    /\ cdQueries' = cdQueries + 1
    /\ cdPc' = "enumerate"
    /\ cdPending' = SeqOf({a \in Addrs : devKnown[a]})
    /\ UNCHANGED <<cdFound, cdRes, cdResult>>
    /\ UNCHANGED <<descVars, charVars, waVars, devVars, ddVars, sessVars, scVars>>

\* connected_devices_with_services(services): the assert, then
\* connected_devices() up to device_addresses().await?
CdwsCall(services) ==
    /\ cdPc = "idle"
    /\ cdServices' = services
    /\ IF services = {}
       THEN \* assert!(!services.is_empty()) panics
            /\ cdPc' = "panicked"
            /\ UNCHANGED <<cdPending, cdResult, cdQueries>>
       ELSE /\ cdQueries' = cdQueries + 1
            /\ \E ok \in BOOLEAN :
                  IF ok
                  THEN /\ cdPc' = "enumerate"
                       /\ cdPending' = SeqOf({a \in Addrs : devKnown[a]})
                       /\ UNCHANGED cdResult
                  ELSE /\ cdPc' = "done"
                       /\ cdResult' = "Other"
                       /\ UNCHANGED cdPending
    /\ UNCHANGED <<cdFound, cdRes>>
    /\ UNCHANGED <<descVars, charVars, waVars, devVars, ddVars, sessVars, scVars>>

\* connected_devices(): device.is_connected().await for the next address;
\* after the last one the devices found are handed to the service filter
CdwsIsConnected ==
    /\ cdPc = "enumerate"
    /\ IF cdPending # <<>>
       THEN LET a == Head(cdPending) IN
            /\ cdQueries' = cdQueries + 1
            /\ cdPending' = Tail(cdPending)
            /\ cdFound' = IF devConnected[a] THEN Append(cdFound, a) ELSE cdFound
            /\ UNCHANGED cdPc
       ELSE /\ cdPc' = "filter"
            /\ cdPending' = cdFound
            /\ UNCHANGED <<cdFound, cdQueries>>
    /\ UNCHANGED <<cdServices, cdRes, cdResult>>
    /\ UNCHANGED <<descVars, charVars, waVars, devVars, ddVars, sessVars, scVars>>

\* the loop over the connected devices: services().await? and the UUID of
\* each service, until one is in `services`
CdwsFilter ==
    /\ cdPc = "filter"
    /\ IF cdPending # <<>>
       THEN LET a == Head(cdPending) IN
            /\ cdQueries' = cdQueries + 1
            /\ \E ok \in BOOLEAN :
                  IF ok
                  THEN /\ cdPending' = Tail(cdPending)
                       /\ cdRes' = IF cdServices \cap devUuids[a] # {}
                                   THEN Append(cdRes, a) ELSE cdRes
                       /\ UNCHANGED <<cdPc, cdResult>>
                  ELSE /\ cdPc' = "done"
                       /\ cdResult' = "Other"
                       /\ UNCHANGED <<cdPending, cdRes>>
       ELSE /\ cdPc' = "done"
            /\ cdResult' = "Ok"
            /\ UNCHANGED <<cdPending, cdRes, cdQueries>>
    /\ UNCHANGED <<cdServices, cdFound>>
    /\ UNCHANGED <<descVars, charVars, waVars, devVars, ddVars, sessVars, scVars>>

\* discover_devices(services): self.inner.discover_devices().await? starts
\* a BlueZ discovery session and returns its event stream
DiscoverCall(services) ==
    /\ ddPc = "idle"
    /\ ddServices' = services
    /\ \E ok \in BOOLEAN :
          IF ok
          THEN /\ ddPc' = "streaming"
               /\ scanStarts' = scanStarts + 1
          ELSE /\ ddPc' = "failed"
               /\ UNCHANGED scanStarts
    /\ UNCHANGED <<discQueue, ddEmitted, ddYielded, scanStops>>
    /\ UNCHANGED <<descVars, charVars, waVars, devVars, cdVars, sessVars, scVars>>

\* BlueZ: the discovery stream announces a device with DeviceAdded: first
\* the devices BlueZ already knows, in no particular order, then the ones
\* the scan finds
BluerDeviceAdded(a) ==
    /\ ddPc = "streaming"
    /\ a \notin ddEmitted
    /\ devKnown[a] \/ \A k \in Addrs : devKnown[k] => k \in ddEmitted
    /\ ddEmitted' = ddEmitted \cup {a}
    /\ discQueue' = Append(discQueue, [event |-> "DeviceAdded", addr |-> a])
    /\ UNCHANGED <<ddPc, ddServices, ddYielded, scanStarts, scanStops>>
    /\ UNCHANGED <<descVars, charVars, waVars, devVars, cdVars, sessVars, scVars>>

\* BlueZ: the discovery stream carries another event (a device removed, a
\* property changed)
BluerOtherEvent ==
    /\ ddPc = "streaming"
    /\ Len(discQueue) < MaxDevices
    /\ \A i \in 1..Len(discQueue) : discQueue[i].event # "Other"
    /\ discQueue' = Append(discQueue, [event |-> "Other", addr |-> 0])
    /\ UNCHANGED <<ddPc, ddServices, ddEmitted, ddYielded, scanStarts, scanStops>>
    /\ UNCHANGED <<descVars, charVars, waVars, devVars, cdVars, sessVars, scVars>>

\* the consumer polls the stream: the filter_map closure is run on the next
\* discovery event
DiscoverNext ==
    /\ ddPc = "streaming"
    /\ discQueue # <<>>
    /\ discQueue' = Tail(discQueue)
    /\ LET ev == Head(discQueue) IN
       IF ev.event # "DeviceAdded"
       THEN UNCHANGED ddYielded
       ELSE \E created \in BOOLEAN, read \in BOOLEAN :
            IF ~created
            THEN \* Device::new failed
                 ddYielded' = Append(ddYielded, [ok |-> FALSE, addr |-> ev.addr])
            ELSE IF ddServices = {}
            THEN ddYielded' = Append(ddYielded, [ok |-> TRUE, addr |-> ev.addr])
            ELSE IF ~read
            THEN \* uuids().await failed
                 ddYielded' = Append(ddYielded, [ok |-> FALSE, addr |-> ev.addr])
            ELSE IF ddServices \cap devUuids[ev.addr] # {}
            THEN ddYielded' = Append(ddYielded, [ok |-> TRUE, addr |-> ev.addr])
            ELSE UNCHANGED ddYielded
    /\ UNCHANGED <<ddPc, ddServices, ddEmitted, scanStarts, scanStops>>
    /\ UNCHANGED <<descVars, charVars, waVars, devVars, cdVars, sessVars, scVars>>

\* the consumer drops the stream: the BlueZ discovery session ends
DiscoverDrop ==
    /\ ddPc = "streaming"
    /\ ddPc' = "dropped"
    /\ scanStops' = scanStops + 1
    /\ discQueue' = <<>>
    /\ UNCHANGED <<ddServices, ddEmitted, ddYielded, scanStarts>>
    /\ UNCHANGED <<descVars, charVars, waVars, devVars, cdVars, sessVars, scVars>>

(***************************************************************************)
(* BlueZ: session() and AdapterImpl::default()                             *)
(***************************************************************************)

\* session()/default() touch only the OnceCell and the callers' own state
SessFrame == UNCHANGED <<descVars, charVars, waVars, devVars, cdVars, ddVars, scVars>>

\* session(): SESSION.get(); a stored session is returned at once
SessionGet(c) ==
    /\ sPc[c] = "idle"
    /\ IF SESSION # NoSession
       THEN /\ sPc' = [sPc EXCEPT ![c] = "returned"]
            /\ sRes' = [sRes EXCEPT ![c] = "Ok"]
            /\ sRet' = [sRet EXCEPT ![c] = SESSION]
       ELSE /\ sPc' = [sPc EXCEPT ![c] = "creating"]
            /\ UNCHANGED <<sRes, sRet>>
    /\ UNCHANGED <<SESSION, sNew, sDropped, sAdapter>>
    /\ SessFrame

\* session(): Session::new().await? makes a session of the caller's own, or
\* fails and the error is returned
SessionNew(c) ==
    /\ sPc[c] = "creating"
    /\ \E ok \in BOOLEAN :
          IF ok
          THEN /\ sNew' = [sNew EXCEPT ![c] = c]
               /\ sPc' = [sPc EXCEPT ![c] = "created"]
               /\ UNCHANGED sRes
          ELSE /\ sPc' = [sPc EXCEPT ![c] = "returned"]
               /\ sRes' = [sRes EXCEPT ![c] = "Err"]
               /\ UNCHANGED sNew
    /\ UNCHANGED <<SESSION, sRet, sDropped, sAdapter>>
    /\ SessFrame

\* faulty variant: the cell is an ordinary static that every caller assigns
SessionSet_Replace(c) ==
    /\ sPc[c] = "created"
    /\ SESSION' = sNew[c]
    /\ sDropped' = IF SESSION = NoSession THEN sDropped ELSE sDropped \cup {SESSION}
    /\ sPc' = [sPc EXCEPT ![c] = "stored"]
    /\ UNCHANGED <<sNew, sRes, sRet, sAdapter>>
    /\ SessFrame

\* session(): let _ = SESSION.set(..): the first set fills the cell; a later
\* one leaves it alone, its Err(session) is dropped
SessionSet(c) ==
    /\ sPc[c] = "created"
    /\ IF SESSION = NoSession
       THEN /\ SESSION' = sNew[c]
            /\ UNCHANGED sDropped
       ELSE /\ sDropped' = sDropped \cup {sNew[c]}
            /\ UNCHANGED SESSION
    /\ sPc' = [sPc EXCEPT ![c] = "stored"]
    /\ UNCHANGED <<sNew, sRes, sRet, sAdapter>>
    /\ SessFrame

\* session(): Ok(SESSION.get().unwrap())
SessionReturn(c) ==
    /\ sPc[c] = "stored"
    /\ sPc' = [sPc EXCEPT ![c] = "returned"]
    /\ sRes' = [sRes EXCEPT ![c] = "Ok"]
    /\ sRet' = [sRet EXCEPT ![c] = SESSION]
    /\ UNCHANGED <<SESSION, sNew, sDropped, sAdapter>>
    /\ SessFrame

\* AdapterImpl::default(): session().await.ok()?.default_adapter().await.ok()
DefaultAdapter(c) ==
    /\ sPc[c] = "returned"
    /\ sPc' = [sPc EXCEPT ![c] = "done"]
    /\ IF sRes[c] = "Err"
       THEN sAdapter' = [sAdapter EXCEPT ![c] = "None"]
       ELSE \E ok \in BOOLEAN :
               sAdapter' = [sAdapter EXCEPT ![c] = IF ok THEN "Some" ELSE "None"]
    /\ UNCHANGED <<SESSION, sNew, sRes, sRet, sDropped>>
    /\ SessFrame

SessNext ==
    \E c \in Callers :
       \/ SessionGet(c)
       \/ SessionNew(c)
       \/ SessionSet(c)
       \/ SessionReturn(c)
       \/ DefaultAdapter(c)

(***************************************************************************)
(* BlueZ: AdapterImpl::scan                                                *)
(***************************************************************************)

\* scan() touches only its own discovery session and stream
ScanFrame == UNCHANGED <<descVars, charVars, waVars, devVars, cdVars, ddVars, sessVars>>

\* scan(services): self.inner.discover_devices().await? starts a BlueZ
\* discovery session in the call itself; the stream over its events is
\* returned afterwards
ScanCall(services) ==
    /\ scPc = "idle"
    /\ scServices' = services
    /\ \E ok \in BOOLEAN :
          IF ok
          THEN /\ scPc' = "streaming"
               /\ scStarts' = scStarts + 1
          ELSE /\ scPc' = "failed"
               /\ UNCHANGED scStarts
    /\ UNCHANGED <<scQueue, scEmitted, scYielded, scPolled, scStops>>
    /\ ScanFrame

\* BlueZ: the discovery stream announces a device with DeviceAdded (the
\* devices BlueZ already knows first); `valid` tells whether Device::new
\* accepts the announced address
ScanDeviceAdded(a, valid) ==
    /\ scPc = "streaming"
    /\ a \notin scEmitted
    /\ devKnown[a] \/ \A k \in Addrs : devKnown[k] => k \in scEmitted
    /\ scEmitted' = scEmitted \cup {a}
    /\ scQueue' = Append(scQueue, [event |-> "DeviceAdded", addr |-> a,
                                   valid |-> valid])
    /\ UNCHANGED <<scPc, scServices, scYielded, scPolled, scStarts, scStops>>
    /\ ScanFrame

\* BlueZ: the discovery stream carries another event
ScanOtherEvent ==
    /\ scPc = "streaming"
    /\ Len(scQueue) < MaxDevices
    /\ \A i \in 1..Len(scQueue) : scQueue[i].event # "Other"
    /\ scQueue' = Append(scQueue, [event |-> "Other", addr |-> 0,
                                   valid |-> FALSE])
    /\ UNCHANGED <<scPc, scServices, scEmitted, scYielded, scPolled, scStarts,
                   scStops>>
    /\ ScanFrame

\* the AdvertisingDevice made of a device: its address and the service
\* UUIDs of its advertising data
AdvertisingDevice(a) == [addr |-> a, services |-> devUuids[a]]

\* faulty variant: the closure does not ask whether the device is connected
Advertises_NoConnectedCheck(ev) ==
    /\ ev.event = "DeviceAdded"
    /\ ev.valid

\* the filter_map closure of scan(): Some for a DeviceAdded event whose
\* Device can be made and is not connected when asked
Advertises(ev) ==
    /\ ev.event = "DeviceAdded"
    /\ ev.valid
    /\ ~devConnected[ev.addr]

\* the filter closure of scan()
ServiceFilter(item) ==
    scServices = {} \/ item.services \cap scServices # {}

\* the consumer polls the stream: the closures are run on the next event
ScanNext ==
    /\ scPc = "streaming"
    /\ scQueue # <<>>
    /\ scPolled' = TRUE
    /\ scQueue' = Tail(scQueue)
    /\ LET ev == Head(scQueue) IN
       IF Advertises(ev) /\ ServiceFilter(AdvertisingDevice(ev.addr))
       THEN scYielded' = Append(scYielded, AdvertisingDevice(ev.addr))
       ELSE UNCHANGED scYielded
    /\ UNCHANGED <<scPc, scServices, scEmitted, scStarts, scStops>>
    /\ ScanFrame

\* the consumer polls the stream while BlueZ has nothing for it
ScanPending ==
    /\ scPc = "streaming"
    /\ scQueue = <<>>
    /\ ~scPolled
    /\ scPolled' = TRUE
    /\ UNCHANGED <<scPc, scServices, scQueue, scEmitted, scYielded, scStarts,
                   scStops>>
    /\ ScanFrame

\* faulty variant: dropping the stream leaves the discovery session running
ScanDrop_NoStop ==
    /\ scPc = "streaming"
    /\ scPc' = "dropped"
    /\ scQueue' = <<>>
    /\ UNCHANGED <<scServices, scEmitted, scYielded, scPolled, scStarts, scStops>>
    /\ ScanFrame

\* the consumer drops the stream: the BlueZ discovery session ends with it
ScanDrop ==
    /\ scPc = "streaming"
    /\ scPc' = "dropped"
    /\ scStops' = scStops + 1
    /\ scQueue' = <<>>
    /\ UNCHANGED <<scServices, scEmitted, scYielded, scPolled, scStarts>>
    /\ ScanFrame

ScNext ==
    \/ \E services \in ServiceArgs : ScanCall(services)
    \/ \E a \in Addrs, valid \in BOOLEAN : ScanDeviceAdded(a, valid)
    \/ ScanOtherEvent
    \/ ScanNext
    \/ ScanPending
    \/ ScanDrop
    \/ \E a \in Addrs : ConnectionChange(a)

(***************************************************************************)
(* Core Bluetooth: DescriptorImpl                                          *)
(***************************************************************************)

\* the descriptor's operations touch no other backend's state
DescFrame == UNCHANGED <<charVars, adapterVars>>

\* the objects Core Bluetooth stores as a descriptor's value: an NSNumber,
\* an NSString (its code points), an NSData (its bytes), or anything else
Objects ==
    { [kind |-> "NSNumber", data |-> <<258>>],
      [kind |-> "NSNumber", data |-> <<65537>>],
      [kind |-> "NSString", data |-> <<72, 233>>],
      [kind |-> "NSData", data |-> <<1, 2>>],
      [kind |-> "NSData", data |-> <<>>],
      [kind |-> "Other", data |-> <<>>] }

\* the UTF-8 bytes of one code point (UTF8String)
Utf8(cp) ==
    IF cp < 128 THEN <<cp>>
    ELSE IF cp < 2048 THEN <<192 + (cp \div 64), 128 + (cp % 64)>>
    ELSE <<224 + (cp \div 4096), 128 + ((cp \div 64) % 64), 128 + (cp % 64)>>

RECURSIVE Utf8Bytes(_)
Utf8Bytes(cps) ==
    IF cps = <<>> THEN <<>> ELSE Utf8(Head(cps)) \o Utf8Bytes(Tail(cps))

\* value_to_slice
value_to_slice(val) ==
    CASE val.kind = "NSNumber" ->
            \* unsignedShortValue, then to_le_bytes
            LET n == val.data[1] % 65536 IN <<n % 256, n \div 256>>
      [] val.kind = "NSString" -> Utf8Bytes(val.data)
      [] val.kind = "NSData" -> val.data
      [] OTHER -> <<>>

\* the results of value(), read() and write()
Ok(bytes) == [kind |-> "Ok", bytes |-> bytes]

Err(kind) == [kind |-> kind, bytes |-> <<>>]

NoResult == [kind |-> "none", bytes |-> <<>>]

\* faulty variant: an unread value is returned as empty bytes
value_Default ==
    IF descValue = <<>> THEN Ok(<<>>) ELSE Ok(value_to_slice(descValue[1]))

\* value(): the cached value, or NotReady when it is nil
value ==
    IF descValue = <<>> THEN Err("NotReady") ELSE Ok(value_to_slice(descValue[1]))

\* the descriptor before any call; the peripheral's state in B
DescStart(B) ==
    /\ periphConnected \in B
    /\ descValue = <<>>
    /\ opPc = "idle"
    /\ opKind = "none"
    /\ opResult = NoResult
    /\ opCount = 0
    /\ rxQueue = <<>>
    /\ requests = <<>>
    /\ ioCount = 0
    /\ periphEvents = 0
    /\ valueRes = NoResult
    /\ svcAlive = TRUE
    /\ svcInvalid = FALSE
    /\ opStale = FALSE
    /\ opSeen = <<>>

DescInit == DescStart(BOOLEAN)

DescQuiet == DescStart({FALSE})

\* a call holds a receiver from its subscription until it returns
Subscribed == opPc \in {"subscribed", "checked", "waiting"}

\* faulty variant: the receiver is made when the request is sent
Broadcast_SubscribedAtRequest(ev) ==
    rxQueue' = IF opPc = "waiting" THEN Append(rxQueue, ev) ELSE rxQueue

\* the delegate broadcasts an event: every receiver that exists is sent it
Broadcast(ev) ==
    rxQueue' = IF Subscribed THEN Append(rxQueue, ev) ELSE rxQueue

Event(type, mine, error) == [type |-> type, mine |-> mine, error |-> error]

\* value()
DescValue ==
    /\ valueRes' = value
    /\ UNCHANGED <<periphConnected, descValue, opPc, opKind, opResult, opCount,
                   rxQueue, requests, ioCount, periphEvents, svcAlive,
                   svcInvalid, opStale, opSeen>>
    /\ DescFrame

\* read() and write(), first step: get the service (read() panics and
\* write() returns NotReady when it is gone) and subscribe to the delegate's
\* events
DescCall(kind) ==
    /\ opPc \in {"idle", "done"}
    /\ opCount < MaxOps
    /\ opCount' = opCount + 1
    /\ opKind' = kind
    /\ opStale' = svcInvalid
    /\ opSeen' = <<>>
    /\ IF ~svcAlive
       THEN /\ opPc' = "done"
            /\ opResult' = IF kind = "read" THEN Err("Panic") ELSE Err("NotReady")
            /\ UNCHANGED rxQueue
       ELSE /\ opPc' = "subscribed"
            /\ opResult' = NoResult
            /\ rxQueue' = <<>>
    /\ UNCHANGED <<periphConnected, descValue, periphEvents, valueRes, svcAlive,
                   svcInvalid, requests, ioCount>>
    /\ DescFrame

\* read() and write(), second step: peripheral.state() is asked; the call
\* returns NotConnected, dropping its receiver, unless it is CONNECTED
DescCheck ==
    /\ opPc = "subscribed"
    /\ IF ~periphConnected
       THEN /\ opPc' = "done"
            /\ opResult' = Err("NotConnected")
            /\ rxQueue' = <<>>
       ELSE /\ opPc' = "checked"
            /\ UNCHANGED <<opResult, rxQueue>>
    /\ UNCHANGED <<periphConnected, descValue, opKind, opCount, requests,
                   ioCount, periphEvents, valueRes, svcAlive, svcInvalid,
                   opStale, opSeen>>
    /\ DescFrame

\* read() and write(), third step: the request is handed to the peripheral,
\* which drops it if it has disconnected since the check; the loop begins
DescSend ==
    /\ opPc = "checked"
    /\ opPc' = "waiting"
    /\ requests' = IF periphConnected THEN Append(requests, opKind) ELSE requests
    /\ ioCount' = ioCount + 1
    /\ UNCHANGED <<periphConnected, descValue, opKind, opResult, opCount,
                   rxQueue, periphEvents, valueRes, svcAlive, svcInvalid,
                   opStale, opSeen>>
    /\ DescFrame

\* Core Bluetooth: the peripheral answers the oldest request; a read that
\* succeeds stores the value in the CBDescriptor before the delegate is
\* told
PeripheralAnswers ==
    /\ requests # <<>>
    /\ periphConnected
    /\ requests' = Tail(requests)
    /\ \E error \in BOOLEAN, obj \in Objects :
          IF Head(requests) = "read"
          THEN /\ descValue' = IF error THEN descValue ELSE <<obj>>
               /\ Broadcast(Event("ValueUpdate", TRUE, error))
          ELSE /\ Broadcast(Event("ValueWrite", TRUE, error))
               /\ UNCHANGED descValue
    /\ UNCHANGED <<periphConnected, opPc, opKind, opResult, opCount, ioCount,
                   periphEvents, valueRes, svcAlive, svcInvalid, opStale, opSeen>>
    /\ DescFrame

\* Core Bluetooth: the delegate is told of something else: a read or write
\* of another descriptor, or a service change that leaves this descriptor's
\* service alone or invalidates it
PeripheralEvent(ev) ==
    /\ periphEvents < MaxPeriphEvents
    /\ periphConnected
    /\ periphEvents' = periphEvents + 1
    /\ Broadcast(ev)
    /\ svcInvalid' = (svcInvalid \/ (ev.type = "ServicesChanged" /\ ev.mine))
    /\ UNCHANGED <<periphConnected, descValue, opPc, opKind, opResult, opCount,
                   requests, ioCount, valueRes, svcAlive, opStale, opSeen>>
    /\ DescFrame

OtherEvents ==
    { Event("ValueUpdate", FALSE, FALSE), Event("ValueWrite", FALSE, FALSE),
      Event("ServicesChanged", FALSE, FALSE), Event("ServicesChanged", TRUE, FALSE) }

\* Core Bluetooth: the peripheral disconnects; its requests are dropped
Disconnected ==
    /\ periphConnected
    /\ periphConnected' = FALSE
    /\ requests' = <<>>
    /\ \E error \in BOOLEAN : Broadcast(Event("Disconnected", FALSE, error))
    /\ UNCHANGED <<descValue, opPc, opKind, opResult, opCount, ioCount,
                   periphEvents, valueRes, svcAlive, svcInvalid, opStale, opSeen>>
    /\ DescFrame

\* Core Bluetooth: the CBService object is released once the peripheral no
\* longer holds it (after a disconnect or its invalidation); a call that
\* has not returned keeps it alive
ServiceReleased ==
    /\ svcAlive
    /\ ~Subscribed
    /\ ~periphConnected \/ svcInvalid
    /\ svcAlive' = FALSE
    /\ UNCHANGED <<periphConnected, descValue, opPc, opKind, opResult, opCount,
                   rxQueue, requests, ioCount, periphEvents, valueRes,
                   svcInvalid, opStale, opSeen>>
    /\ DescFrame

\* faulty variant: the loop has no arm for a service change
Outcome_NoServiceChange(kind, ev) ==
    CASE ev.type = (IF kind = "read" THEN "ValueUpdate" ELSE "ValueWrite") /\ ev.mine ->
            IF ev.error THEN Err("Other")
            ELSE IF kind = "read" THEN value ELSE Ok(<<>>)
      [] ev.type = "Disconnected" -> Err("NotConnected")
      [] OTHER -> NoResult

\* faulty variant: the completion's descriptor is not compared with this one
Outcome_AnyDescriptor(kind, ev) ==
    CASE ev.type = (IF kind = "read" THEN "ValueUpdate" ELSE "ValueWrite") ->
            IF ev.error THEN Err("Other")
            ELSE IF kind = "read" THEN value ELSE Ok(<<>>)
      [] ev.type = "Disconnected" -> Err("NotConnected")
      [] ev.type = "ServicesChanged" /\ ev.mine -> Err("ServiceChanged")
      [] OTHER -> NoResult

\* what the loop of read()/write() makes of an event: a result, or NoResult
\* to keep waiting
Outcome(kind, ev) ==
    CASE ev.type = (IF kind = "read" THEN "ValueUpdate" ELSE "ValueWrite") /\ ev.mine ->
            IF ev.error THEN Err("Other")
            ELSE IF kind = "read" THEN value ELSE Ok(<<>>)
      [] ev.type = "Disconnected" -> Err("NotConnected")
      [] ev.type = "ServicesChanged" /\ ev.mine -> Err("ServiceChanged")
      [] OTHER -> NoResult

\* read()/write(): receiver.recv().await hands the loop the next event
DescRecv ==
    /\ opPc = "waiting"
    /\ rxQueue # <<>>
    /\ opSeen' = Append(opSeen, Head(rxQueue))
    /\ LET res == Outcome(opKind, Head(rxQueue)) IN
       IF res = NoResult
       THEN /\ rxQueue' = Tail(rxQueue)
            /\ UNCHANGED <<opPc, opResult>>
       ELSE /\ opPc' = "done"
            /\ opResult' = res
            /\ rxQueue' = <<>>
    /\ UNCHANGED <<periphConnected, descValue, opKind, opCount, requests,
                   ioCount, periphEvents, valueRes, svcAlive, svcInvalid, opStale>>
    /\ DescFrame

DescNext ==
    \/ DescValue
    \/ \E kind \in {"read", "write"} : DescCall(kind)
    \/ DescCheck
    \/ DescSend
    \/ PeripheralAnswers
    \/ \E ev \in OtherEvents : PeripheralEvent(ev)
    \/ Disconnected
    \/ ServiceReleased
    \/ DescRecv


WaNext ==
    \/ PowerChange
    \/ OtherAdapterEvent
    \/ EventsClosed
    \/ WaitAvailableCall
    \/ WaitSubscribe
    \/ WaitNext

CdNext ==
    \/ \E a \in Addrs : ConnectionChange(a)
    \/ \E services \in ServiceArgs : CdwsCall(services)
    \/ CdwsIsConnected
    \/ CdwsFilter

DdNext ==
    \/ \E a \in Addrs : ConnectionChange(a)
    \/ \E services \in ServiceArgs : DiscoverCall(services)
    \/ \E a \in Addrs : BluerDeviceAdded(a)
    \/ BluerOtherEvent
    \/ DiscoverNext
    \/ DiscoverDrop

(***************************************************************************)
(* The specifications: one per backend, and for the adapter one per        *)
(* operation. The state an operation does not touch starts quiet.          *)
(***************************************************************************)

InitCharacteristic ==
    CharInit /\ WaQuiet /\ DevQuiet /\ CdInit /\ DdInit /\ SessInit
    /\ ScInit /\ DescQuiet

InitWaitAvailable ==
    CharQuiet /\ WaInit /\ DevQuiet /\ CdInit /\ DdInit /\ SessInit
    /\ ScInit /\ DescQuiet

InitDevices ==
    CharQuiet /\ WaQuiet /\ DevInit /\ CdInit /\ DdInit /\ SessInit
    /\ ScInit /\ DescQuiet

InitDescriptor ==
    CharQuiet /\ WaQuiet /\ DevQuiet /\ CdInit /\ DdInit /\ SessInit
    /\ ScInit /\ DescInit

SpecCharacteristic == InitCharacteristic /\ [][CharNext]_vars

SpecWaitAvailable == InitWaitAvailable /\ [][WaNext]_vars

SpecConnectedDevices == InitDevices /\ [][CdNext]_vars

SpecDiscover == InitDevices /\ [][DdNext]_vars

SpecDescriptor == InitDescriptor /\ [][DescNext]_vars

(***************************************************************************)
(* Claims about AdapterImpl                                                *)
(***************************************************************************)

\* device a provides a service of the discover_devices argument
Matches(a) == ddServices = {} \/ ddServices \cap devUuids[a] # {}

ConnectedMatching == {a \in Addrs : devConnected[a] /\ Matches(a)}

\* C5: with one connected matching device and a consumer that drops the
\* sequence after its first item (a device, not an error), discover_devices
\* yields exactly that device and no scan is ever started.
C5_NoScanForConnectedOnly ==
    \A d \in Addrs :
       ( /\ connChanges = 0
         /\ ConnectedMatching = {d}
         /\ ddPc = "dropped"
         /\ Len(ddYielded) = 1
         /\ ddYielded[1].ok )
       => /\ ddYielded = <<[ok |-> TRUE, addr |-> d]>>
          /\ scanStarts = 0

\* C6: every connected matching device is yielded before any device that
\* is not connected (a device found by scanning).
C6_ConnectedSnapshotFirst ==
    connChanges = 0 =>
       \A i \in 1..Len(ddYielded) :
          (ddYielded[i].ok /\ ~devConnected[ddYielded[i].addr]) =>
             \A d \in ConnectedMatching :
                \E j \in 1..(i - 1) : ddYielded[j] = [ok |-> TRUE, addr |-> d]

\* C7: when is_powered() answers true, wait_available() is over with Ok and
\* the adapter event stream has been neither subscribed to nor polled; nor
\* is it when the query itself fails.
C7_PoweredNoSubscription ==
    /\ waPoweredSeen = "true" => waPc = "done" /\ waResult = "Ok"
    /\ waPoweredSeen \in {"true", "Err"} =>
          /\ evSubs = 0
          /\ ~evPolled
          /\ evQueue = <<>>

\* C7 witness: wait_available() returned Ok on a powered adapter.
C7_Witness ==
    /\ waPoweredSeen = "true"
    /\ waResult = "Ok"

\* C8: a subscribed wait_available() that has seen no Available item is
\* still waiting after any number of Unavailable items, is completed by the
\* end of the stream, and then with an Internal error.
C8_ClosedStreamIsInternal ==
    LET n == Len(waConsumed) IN
    /\ waPc = "waiting" =>
          \A i \in 1..n : waConsumed[i] = "Unavailable"
    /\ (waPc = "done" /\ n > 0) =>
          /\ \A i \in 1..(n - 1) : waConsumed[i] = "Unavailable"
          /\ waConsumed[n] \in {"Available", "End"}
          /\ waConsumed[n] = "End" => waResult = "Internal"
          /\ waConsumed[n] = "Available" => waResult = "Ok"
    /\ waResult = "Internal" => n > 0 /\ waConsumed[n] = "End"
    /\ (waPc = "waiting" /\ evClosed /\ evQueue = <<>>) => ENABLED WaitNext

\* C8 witness: the stream ended after an Unavailable item and the call
\* returned the Internal error.
C8_Witness ==
    /\ waResult = "Internal"
    /\ waConsumed = <<"Unavailable", "End">>

\* C9: a call with an empty `services` panics on the assert before any
\* query: no address enumeration, no connection or service query.
C9_EmptyServicesRejected ==
    (cdPc # "idle" /\ cdServices = {}) =>
       /\ cdPc = "panicked"
       /\ cdQueries = 0
       /\ cdPending = <<>>
       /\ cdFound = <<>>
       /\ cdRes = <<>>
       /\ cdResult = "none"

\* C9 witness: the call was made with an empty list and panicked.
C9_Witness ==
    /\ cdPc = "panicked"
    /\ cdServices = {}

(***************************************************************************)
(* Claims about DescriptorImpl                                             *)
(***************************************************************************)

\* one request has been sent to the peripheral, a read, and the read()
\* that sent it has returned Ok
ReadSettled ==
    /\ opPc = "done"
    /\ opKind = "read"
    /\ opResult.kind = "Ok"
    /\ ioCount = 1

\* C10: value() sends nothing to the peripheral; it fails with NotReady
\* exactly while the cached value is nil (never empty bytes in its place),
\* and after one successful read() it returns the bytes read() returned.
C10_ValueIsCachedRead ==
    [][DescValue =>
          /\ UNCHANGED <<ioCount, requests, descValue>>
          /\ IF descValue = <<>>
             THEN valueRes' = Err("NotReady")
             ELSE valueRes'.kind = "Ok"
          /\ ReadSettled => valueRes' = opResult]_vars

\* C10 witness: a read() returned the UTF-8 bytes of the stored string and
\* value() returned the same bytes, with the one read request as the only
\* request sent.
C10_Witness ==
    /\ ReadSettled
    /\ opResult = Ok(<<72, 195, 169>>)
    /\ valueRes = opResult

\* C11: a read() or write() begun while the peripheral is not connected
\* returns NotConnected and sends no request to the peripheral.
C11_NotConnectedNoRequest ==
    [][/\ \A kind \in {"read", "write"} :
             (DescCall(kind) /\ ~periphConnected) =>
                /\ opPc' = "subscribed"
                /\ UNCHANGED <<ioCount, requests>>
       /\ (DescCheck /\ ~periphConnected) =>
             /\ opPc' = "done"
             /\ opResult' = Err("NotConnected")
             /\ UNCHANGED <<ioCount, requests>>]_vars

IsServiceChange(ev) == ev.type = "ServicesChanged" /\ ev.mine

\* C12: a read() or write() that is in its loop when the event of a service
\* change containing the owning service reaches it returns ServiceChanged: the
\* loop never passes over that event, and it is the loop's own receiver that
\* the failure is read from.
C12_ServiceChangeFailsInFlight ==
    /\ opPc = "waiting" =>
          \A i \in 1..Len(opSeen) : ~IsServiceChange(opSeen[i])
    /\ (opPc = "done" /\ opSeen # <<>> /\ IsServiceChange(opSeen[Len(opSeen)])) =>
          opResult = Err("ServiceChanged")
    /\ opResult = Err("ServiceChanged") =>
          /\ opSeen # <<>>
          /\ IsServiceChange(opSeen[Len(opSeen)])

C12_Witness ==
    /\ opPc = "done"
    /\ opResult = Err("ServiceChanged")
    /\ Len(opSeen) > 1

\* C13: a read() or write() begun after a service change has invalidated the
\* owning service, on a handle whose service object still exists, returns
\* ServiceChanged and sends no request (so it is never left waiting for an
\* answer).
C13_StaleHandleRejected ==
    (opStale /\ svcAlive) =>
       /\ opPc # "waiting"
       /\ opPc = "done" => opResult = Err("ServiceChanged")

\* concurrent callers of session() and default()
InitSession ==
    CharQuiet /\ WaQuiet /\ DevQuiet /\ CdInit /\ DdInit /\ SessInit
    /\ ScInit /\ DescQuiet

SpecSession == InitSession /\ [][SessNext]_vars

\* C14: with concurrent first calls of session(), every Ok return refers to
\* the one stored session; the cell is filled at most once and never
\* refilled; a caller whose own session lost the race returns Ok with the
\* stored one, and its own session is discarded and returned to nobody.
C14_OneSharedSession ==
    [][/\ SESSION # NoSession => SESSION' = SESSION
       /\ SESSION' \notin sDropped'
       /\ \A c \in Callers :
             /\ sRes'[c] = "Ok" =>
                   /\ SESSION' # NoSession
                   /\ sRet'[c] = SESSION'
             /\ (sNew'[c] # NoSession /\ sPc'[c] \in {"returned", "done"}) =>
                   /\ sRes'[c] = "Ok"
                   /\ sNew'[c] = SESSION' \/ sNew'[c] \in sDropped']_vars

C14_Witness ==
    \E c, d \in Callers :
       /\ c # d
       /\ sNew[c] # NoSession /\ sNew[d] # NoSession
       /\ sRes[c] = "Ok" /\ sRes[d] = "Ok"
       /\ sDropped # {}

\* scan() over an adapter whose devices connect and disconnect
SpecScan == InitDevices /\ [][ScNext]_vars

\* C15: an item is yielded by scan(services) only for a DeviceAdded event of
\* a device that is not connected when the event is processed and, with
\* services non-empty, whose advertised UUIDs intersect services; with
\* services empty every DeviceAdded event of a device that is not connected
\* yields its item.
C15_ScanYieldsAdvertisers ==
    [][/\ scYielded' # scYielded =>
             /\ scQueue # <<>>
             /\ LET ev == Head(scQueue) IN
                /\ ev.event = "DeviceAdded"
                /\ ~devConnected[ev.addr]
                /\ scServices # {} => devUuids[ev.addr] \cap scServices # {}
                /\ scYielded' = Append(scYielded, [addr |-> ev.addr,
                                                   services |-> devUuids[ev.addr]])
       /\ (/\ ScanNext
           /\ scServices = {}
           /\ Head(scQueue).event = "DeviceAdded"
           /\ Head(scQueue).valid
           /\ ~devConnected[Head(scQueue).addr]) =>
             Len(scYielded') = Len(scYielded) + 1]_vars

C15_Witness ==
    /\ scServices # {}
    /\ scQueue = <<>>
    /\ Len(scYielded) = 1
    /\ \E a \in scEmitted :
          /\ devConnected[a]
          /\ devUuids[a] \cap scServices # {}
          /\ \A i \in 1..Len(scYielded) : scYielded[i].addr # a

\* C16: the discovery session of scan(services) is not started before the
\* returned stream is first polled, and it is stopped exactly once, when the
\* consumer drops the stream.
C16_LazyStartStopOnce ==
    /\ scStarts > 0 => scPolled
    /\ scStops = (IF scPc = "dropped" THEN 1 ELSE 0)

\* C16, amended: the discovery session is started by the scan() call itself,
\* once, before the stream is returned; it is running for as long as the
\* consumer holds the stream and is stopped exactly once, when the consumer
\* drops the stream, polled or not; a failed call starts and stops nothing.
C16_StartAtCallStopOnce ==
    /\ scPc \in {"idle", "failed"} => (scStarts = 0 /\ scStops = 0)
    /\ scPc = "streaming" => (scStarts = 1 /\ scStops = 0)
    /\ scPc = "dropped" => (scStarts = 1 /\ scStops = 1)

C16_Witness ==
    /\ scPc = "dropped"
    /\ scStops = 1
    /\ scYielded # <<>>

\* C17: when a stream is dropped, a disable write that cannot be started or
\* whose result is a failure is only logged: no call's result or position
\* changes because of it, and the dropped stream's handler is removed, once.
C17_DisableIsBestEffort ==
    [][/\ \A c \in Calls :
             (pc[c] = "live" /\ pc'[c] = "disposed") =>
                /\ removed'[c] = removed[c] + 1
                /\ c \notin handlers'
                /\ result' = result
                /\ Len(cccdWrites') = Len(cccdWrites) + 1
                /\ LET w == cccdWrites'[Len(cccdWrites')] IN
                   /\ w.value = "None" /\ w.call = c
                   /\ logged' = (IF w.started THEN logged ELSE logged + 1)
       /\ (/\ inFlight # <<>>
           /\ Head(inFlight).value = "None"
           /\ inFlight' = Tail(inFlight)) =>
             /\ UNCHANGED <<pc, result, handlers, removed, rxOpen, received>>
             /\ \/ logged' = logged + 1 /\ peerCccd' = peerCccd
                \/ logged' = logged /\ peerCccd' = "None"
       /\ \A c \in Calls :
             pc'[c] = "disposed" =>
                /\ removed'[c] = 1
                /\ c \notin handlers'
                /\ result'[c] = "Ok"]_vars

C17_Witness ==
    \E c \in Calls :
       /\ pc[c] = "disposed"
       /\ result[c] = "Ok"
       /\ removed[c] = 1
       /\ inFlight = <<>>
       /\ logged > 0

\* C18: no value-change event is put into a call's channel before that
\* call's enable write has completed with success: not while the write is
\* in flight and not after it has failed.
C18_NoEventBeforeEnabled ==
    \A c \in Calls : chan[c] # <<>> => writeDone[c] = "Success"

\* C18, amended: the handler is registered before the enable write, so
\* events raised while the write is in flight are put into the channel; but
\* a consumer is given an item only by a call whose enable write completed
\* with success, and a call whose write failed has dropped its channel with
\* whatever it held and has delivered nothing.
C18_NoDeliveryBeforeEnabled ==
    \A c \in Calls :
       /\ received[c] # <<>> =>
             /\ writeDone[c] = "Success"
             /\ result[c] = "Ok"
       /\ chan[c] # <<>> =>
             /\ c \in handlers
             /\ pc[c] \in {"enabling", "live"}
       /\ pc[c] = "failed" =>
             /\ chan[c] = <<>>
             /\ ~rxOpen[c]
             /\ received[c] = <<>>

C18_Witness ==
    \E c \in Calls :
       /\ pc[c] = "enabling"
       /\ writeDone[c] = "none"
       /\ chan[c] # <<>>

\* the one call that is made
FirstCall == CHOOSE c \in Calls : \A d \in Calls : c <= d

\* one notify() call and its stream, with the platform raising more events
\* than the channel holds
DeliveryNext ==
    \/ \E c \in {FirstCall} : NotifyCall(c)
    \/ PeerWrite
    \/ \E c \in {FirstCall} : NotifyResume(c)
    \/ ValueChangedUpTo(MaxBurst)
    \/ \E c \in {FirstCall} : StreamNext(c)
    \/ \E c \in {FirstCall} : DropStream(c)

SpecDelivery == InitCharacteristic /\ [][DeliveryNext]_vars

\* the events numbered from + 1 up to to, in order
EventRun(from, to) == [i \in 1..(to - from) |-> from + i]

\* C19: for a live stream, what the consumer has received followed by what
\* the channel holds is exactly the run of events raised since the handler
\* was registered, each once and in order; the channel never holds more than
\* its capacity, the producer waiting while it is full.
C19_InOrderNoLoss ==
    \A c \in Calls :
       pc[c] = "live" =>
          /\ received[c] \o chan[c] = EventRun(regAt[c], raised)
          /\ Len(chan[c]) <= ChannelCapacity

C19_Witness ==
    \E c \in Calls :
       /\ pc[c] = "live"
       /\ Len(chan[c]) = ChannelCapacity
       /\ raised < MaxBurst
       /\ ~ENABLED ValueChangedUpTo(MaxBurst)

\* C20: wait_available() never misses a power-on: whenever the call is
\* suspended on the open event stream while the adapter is powered, the
\* power-on that made it so is an event still to come on its stream, so
\* that the call will return Ok.
C20_NoMissedPowerOn ==
    (waPc = "waiting" /\ powered /\ ~evClosed) =>
       \E i \in 1..Len(evQueue) : AdapterEventOf(evQueue[i]) = "Available"

\* the invocations of the CCCD write API made by call c
WritesBy(c) == {i \in 1..Len(cccdWrites) : cccdWrites[i].call = c}

\* the enable step of call c has failed: its write could not be started, or
\* its completion was an error or a status other than success
EnableFailed(c) ==
    /\ pc[c] # "enabling"
    /\ \/ \E i \in WritesBy(c) :
             cccdWrites[i].value # "None" /\ ~cccdWrites[i].started
       \/ writeDone[c] \in WriteStatuses \ {"Success"}

\* C21: when the enable step of a notify() call fails, the call returns the
\* error, the handler it registered has been removed exactly once, it has
\* issued no disable write, and there is no stream: its channel is gone and
\* nothing was delivered.
C21_EnableFailureCleansUp ==
    \A c \in Calls :
       EnableFailed(c) =>
          /\ pc[c] = "failed"
          /\ result[c] = "Other"
          /\ removed[c] = 1
          /\ c \notin handlers
          /\ \A i \in WritesBy(c) : cccdWrites[i].value # "None"
          /\ Cardinality(WritesBy(c)) = 1
          /\ ~rxOpen[c]
          /\ chan[c] = <<>>
          /\ received[c] = <<>>

C21_Witness ==
    \E c, d \in Calls :
       /\ writeDone[c] \in WriteStatuses \ {"Success"}
       /\ pc[c] = "failed"
       /\ removed[c] = 1
       /\ \E i \in WritesBy(d) : ~cccdWrites[i].started /\ cccdWrites[i].value # "None"
       /\ pc[d] = "failed"

\* an event that ends the loop of the call now made
Deciding(ev) == Outcome(opKind, ev) # NoResult

OwnCompletion(ev) ==
    /\ ev.mine
    /\ \/ opKind = "read" /\ ev.type = "ValueUpdate"
       \/ opKind = "write" /\ ev.type = "ValueWrite"

\* C23: each event a call's loop receives either decides the call or is
\* passed over: its own completion gives the completion's error or success
\* (for a read the value then cached), Disconnected gives NotConnected, a
\* service change containing the owning service ends it too, and every
\* other event (a completion for another descriptor or of the other kind, a
\* service change elsewhere) leaves the call waiting with no result.
C23_FirstRelevantEventDecides ==
    [][DescRecv =>
          LET ev == Head(rxQueue) IN
          IF OwnCompletion(ev)
          THEN /\ opPc' = "done"
               /\ opResult' = (IF ev.error THEN Err("Other")
                               ELSE IF opKind = "read" THEN value ELSE Ok(<<>>))
          ELSE IF ev.type = "Disconnected"
          THEN /\ opPc' = "done"
               /\ opResult' = Err("NotConnected")
          ELSE IF IsServiceChange(ev)
          THEN opPc' = "done"
          ELSE /\ opPc' = "waiting"
               /\ opResult' = NoResult
               /\ rxQueue' = Tail(rxQueue)]_vars

C23_Witness ==
    /\ opPc = "done"
    /\ opResult.kind = "Ok"
    /\ Len(opSeen) > 2
    /\ \E i, j \in 1..Len(opSeen) :
          /\ opSeen[i].type = "ServicesChanged" /\ ~opSeen[i].mine
          /\ opSeen[j].type \in {"ValueUpdate", "ValueWrite"} /\ ~OwnCompletion(opSeen[j])

====
